---------------------------- MODULE Spec2Model ----------------------------
(***************************************************************************)
(* A model of crawler.py: the Fetcher (bounded retries, blacklist, per-job *)
(* counters), the persister (create_folder, write_file, save_page) and the *)
(* orchestrator (main, one_iteration, download_page_with_comments) as      *)
(* asyncio tasks.  One action is one run of a task between two suspension  *)
(* points (an await that really suspends).  URLs, names and paths are      *)
(* strings; Len, SubSeq and \o act on them character by character.         *)
(***************************************************************************)
EXTENDS Naturals, Sequences, FiniteSets, TLC

VARIABLES
    downloaded_pages,   \* Fetcher.downloaded_pages: a list, kept as URL -> occurrences
    black_list,         \* Fetcher.black_list: a list, kept as URL -> occurrences
    errors,             \* Fetcher.errors: dict URL -> message
    error,              \* Fetcher.error: the shared "last error" field
    jobs,               \* Fetcher.jobs: defaultdict(int), job id -> count
    tick,               \* number of passes of main's while loop so far
    iter,               \* the one_iteration tasks, by job id
    sub,                \* the download_page_with_comments tasks, by <<job, n>>
    sv,                 \* the save_page tasks, by <<job, n, k>> (k = 0: story)
    folders,            \* the directories that exist under the root
    files,              \* the files that exist: path -> [data, binary]
    opens,              \* history: path -> times it was opened for writing
    faulty,             \* history: the calls of fetch that saw an attempt fail
    downloadedAt,       \* history: URL -> value of tick when first downloaded
    blacklistedAt,      \* history: URL -> value of tick when first blacklisted
    api                 \* the last direct call of a Fetcher method (drivers)

fetcher == <<downloaded_pages, black_list, errors, error, jobs>>
disk == <<folders, files, opens>>
history == <<faulty, downloadedAt, blacklistedAt>>
vars == <<downloaded_pages, black_list, errors, error, jobs, tick, iter, sub,
          sv, folders, files, opens, faulty, downloadedAt, blacklistedAt, api>>

(***************************************************************************)
(* Program constants.                                                      *)
(***************************************************************************)
BASE_URL == "https://news.ycombinator.com/"
COMMENTS_URL(id) == "https://news.ycombinator.com/item?id=" \o id
FOLDERNAME_MAXLENGTH == 127
FILENAME_MAXLENGTH == 127
MAXIMUM_FETCHES == 5

(***************************************************************************)
(* Bounds of the model.                                                    *)
(***************************************************************************)
MaxTicks == 2       \* passes of main's loop
MaxSubJobs == 2     \* sub-jobs started over a whole run
MaxFaulty == 1      \* calls of fetch that see an attempt fail, over a whole run
MaxCalls == 2       \* calls of save_page made by its driver
MaxCount == 4       \* highest count the driver of the job counters reaches
MaxPad == 3         \* the longest hint of the drivers is this much over the ceiling

(***************************************************************************)
(* Strings.                                                                *)
(***************************************************************************)
Min(a, b) == IF a < b THEN a ELSE b
\* a Python list whose order is never read (the code uses in, len and append):
\* element -> number of occurrences
\* (a set: an element that is there is not recorded again)
SetAdd(l, x) == [y \in DOMAIN l \cup {x} |-> IF y \in DOMAIN l THEN l[y] ELSE 1]

ListAppend(l, x) == [y \in DOMAIN l \cup {x} |-> IF y = x THEN (IF x \in DOMAIN l THEN l[x] + 1 ELSE 1) ELSE l[y]]
RECURSIVE ListLen(_)
ListLen(l) == IF DOMAIN l = {} THEN 0
              ELSE LET x == CHOOSE y \in DOMAIN l : TRUE IN l[x] + ListLen([y \in DOMAIN l \ {x} |-> l[y]])
Ch(s, i) == SubSeq(s, i, i)
Tail1(s) == SubSeq(s, 2, Len(s))
\* s[:n] of Python, n >= 0
Prefix(s, n) == SubSeq(s, 1, Min(n, Len(s)))
\* sub in s
Contains(s, t) == \E i \in 1..(Len(s) + 1) : i + Len(t) - 1 <= Len(s) /\ SubSeq(s, i, i + Len(t) - 1) = t

RECURSIVE LStrip(_)
LStrip(s) == IF s # "" /\ Ch(s, 1) = " " THEN LStrip(Tail1(s)) ELSE s
RECURSIVE RStrip(_)
RStrip(s) == IF s # "" /\ Ch(s, Len(s)) = " " THEN RStrip(SubSeq(s, 1, Len(s) - 1)) ELSE s
\* str.strip(), for the blank
Strip(s) == RStrip(LStrip(s))

\* html.unescape, for the entity that occurs in links
RECURSIVE UnescapeFrom(_, _)
UnescapeFrom(s, i) ==
    IF i > Len(s) THEN ""
    ELSE IF i + 4 <= Len(s) /\ SubSeq(s, i, i + 4) = "&amp;" THEN "&" \o UnescapeFrom(s, i + 5)
    ELSE Ch(s, i) \o UnescapeFrom(s, i + 1)
HtmlUnescape(s) == UnescapeFrom(s, 1)

\* REGEX_SUB_NAME.sub('_', s): every character of [:\/#] replaced (the
\* string is worked on by halves, which keeps the evaluation shallow)
RECURSIVE SubNameAt(_, _, _)
SubNameAt(s, lo, hi) ==
    IF lo > hi THEN ""
    ELSE IF lo = hi THEN (IF Ch(s, lo) \in {":", "/", "#"} THEN "_" ELSE Ch(s, lo))
    ELSE SubNameAt(s, lo, (lo + hi) \div 2) \o SubNameAt(s, (lo + hi) \div 2 + 1, hi)
SubName(s) == SubNameAt(s, 1, Len(s))

\* os.path.join(a, b)
PathJoin(a, b) ==
    IF b # "" /\ Ch(b, 1) = "/" THEN b
    ELSE IF a = "" \/ Ch(a, Len(a)) = "/" THEN a \o b
    ELSE a \o "/" \o b

(***************************************************************************)
(* hashlib.md5(s.encode()).hexdigest(): a function of the whole string     *)
(* giving 32 hex digits.  The digest computed here is a checksum, not MD5: *)
(* what the code relies on is that it is a function of its argument and    *)
(* 32 characters long.                                                     *)
(***************************************************************************)
Alphabet == "abcdefghijklmnopqrstuvwxyz0123456789_.:/#?=&- ;ABCDEFGHIJKLMNOPQRSTUVWXYZ"
HexDigits == "0123456789abcdef"
Codes == [c \in {Ch(Alphabet, i) : i \in 1..Len(Alphabet)} |-> CHOOSE i \in 1..Len(Alphabet) : Ch(Alphabet, i) = c]
CharCode(c) == Codes[c]
\* the sum of position * character code over s[lo..hi]
RECURSIVE CheckSum(_, _, _)
CheckSum(s, lo, hi) ==
    IF lo > hi THEN 0
    ELSE IF lo = hi THEN (lo * CharCode(Ch(s, lo))) % 65536
    ELSE (CheckSum(s, lo, (lo + hi) \div 2) + CheckSum(s, (lo + hi) \div 2 + 1, hi)) % 65536
HexDigit(n) == Ch(HexDigits, (n % 16) + 1)
Hex4(n) == HexDigit(n \div 4096) \o HexDigit(n \div 256) \o HexDigit(n \div 16) \o HexDigit(n)
RECURSIVE HexGroups(_, _)
HexGroups(h, g) == IF g = 0 THEN "" ELSE Hex4((h * (2 * g + 1) + 7919 * g) % 65536) \o HexGroups(h, g - 1)
Md5Hex(s) == HexGroups(CheckSum(s, 1, Len(s)), 8)

(***************************************************************************)
(* The persister's names.                                                  *)
(***************************************************************************)
\* create_folder: the name of the folder, before it is looked up and made
FolderName(root, foldername) ==
    LET page_dir == PathJoin(root, foldername) IN
    IF Len(page_dir) >= FOLDERNAME_MAXLENGTH
    THEN LET hash == Md5Hex(page_dir) IN Prefix(page_dir, FOLDERNAME_MAXLENGTH - Len(hash)) \o hash
    ELSE page_dir

\* (a name that is cut without the hash being made to fit)
FileNameLong(filename) ==
    IF Len(filename) >= FILENAME_MAXLENGTH
    THEN Prefix(filename, FILENAME_MAXLENGTH) \o Md5Hex(filename)
    ELSE filename

\* write_file: the name of the file
FileName(filename) ==
    IF Len(filename) >= FILENAME_MAXLENGTH
    THEN LET hash == Md5Hex(filename) IN Prefix(filename, FILENAME_MAXLENGTH - Len(hash)) \o hash
    ELSE filename

(***************************************************************************)
(* The site.  A response body is a record: what REGEX_TOP_URLS finds in it *)
(* (top: <<thread id, href>> pairs in document order), what REGEX_HREF     *)
(* finds inside its REGEX_COMMENTSPAN spans (hrefs, in document order),    *)
(* and the data that a save writes.  The front page changes between two    *)
(* requests; the other pages do not.                                       *)
(***************************************************************************)
Body(top, hrefs, data, binary) == [top |-> top, hrefs |-> hrefs, data |-> data, binary |-> binary]
StoryA == <<"1", "http://a.example/x">>
StoryB == <<"2", "item?id=2 ">>
LinkY == "http://b.example/y?p=1&amp;q=2"
FrontPages ==
    {Body(<<>>, <<>>, "front-0", FALSE), Body(<<StoryA>>, <<>>, "front-1", FALSE),
     Body(<<StoryA, StoryB>>, <<>>, "front-2", FALSE)}
Web(url) ==
    IF url = BASE_URL THEN FrontPages
    ELSE IF url = COMMENTS_URL("1") THEN {Body(<<>>, <<LinkY>>, "thread-1", FALSE)}
    ELSE IF url = COMMENTS_URL("2") THEN {Body(<<>>, <<>>, "thread-2", FALSE)}
    ELSE IF url = "http://a.example/x" THEN {Body(<<>>, <<>>, "story-a", FALSE)}
    ELSE {Body(<<>>, <<>>, "image", TRUE)}
\* args.root
ROOT == "/srv/PAGES"

\* what one attempt of Fetcher.fetch can end in: the body is returned; one of
\* ClientConnectionError, ServerDisconnectedError, TimeoutError,
\* UnicodeDecodeError is caught; CancelledError is caught (the attempt's
\* timeout cancels the task); any other exception leaves fetch
Outcomes == {"ok", "transient", "cancelled", "other"}
Retryable == {"transient", "cancelled"}

(***************************************************************************)
(* Fetcher.                                                                *)
(***************************************************************************)
\* (a counter that counts a page twice)
increment_job_count_twice(js, job_id) ==
    IF job_id \in DOMAIN js THEN [js EXCEPT ![job_id] = @ + 2] ELSE js @@ (job_id :> 2)

\* Fetcher.increment_job_count, on the dict js
increment_job_count(js, job_id) ==
    IF job_id \in DOMAIN js THEN [js EXCEPT ![job_id] = @ + 1] ELSE js @@ (job_id :> 1)

\* (a read that leaves the entry in place, as js[job_id] or js.get would)
PopKeeps(js, job_id) == js

\* Fetcher.get_downloaded_pages_by_job_id: dict.pop(job_id) raises KeyError
\* for a missing key (a defaultdict's default is for js[job_id] only)
PopRaises(js, job_id) == job_id \notin DOMAIN js
PopValue(js, job_id) == js[job_id]
PopRest(js, job_id) == [k \in DOMAIN js \ {job_id} |-> js[k]]

\* str(error), and the text set for a CancelledError
ErrorText(url, o) == IF o = "cancelled" THEN "Cancelled Task" ELSE "Cannot connect to host " \o url

\* (a loop that makes one attempt more)
LastAttemptLate(k) == k >= MAXIMUM_FETCHES + 1

\* (a loop that stops one attempt early)
LastAttemptEarly(k) == k >= MAXIMUM_FETCHES - 1

\* for _ in range(MAXIMUM_FETCHES): attempt k was the last one
LastAttempt(k) == k >= MAXIMUM_FETCHES

\* whether one more attempt of call c may fail (any call of a driver may)
MayFail(c) == c[1] = 0 \/ c \in faulty \/ Cardinality(faulty) < MaxFaulty

FirstSeen(at, url) == IF url \in DOMAIN at THEN at ELSE at @@ (url :> tick)

\* fetch, lines 82-84: the attempt succeeded (jobs is left to the caller,
\* which may go on to pop the counter in the same run)
FetchReturns(url) ==
    /\ downloaded_pages' = ListAppend(downloaded_pages, url)
    /\ downloadedAt' = FirstSeen(downloadedAt, url)
    /\ UNCHANGED <<black_list, errors, error, faulty, blacklistedAt>>

\* (a fetch that records, after a suspension, what the shared field holds)
FetchCatchesStale(c, url, o, k) ==
    /\ MayFail(c)
    /\ faulty' = faulty \cup {c}
    /\ error' = ErrorText(url, o)
    /\ IF LastAttempt(k)
       THEN /\ errors' = [u \in DOMAIN errors \cup {url} |-> IF u = url THEN error ELSE errors[u]]
            /\ black_list' = ListAppend(black_list, url)
            /\ blacklistedAt' = FirstSeen(blacklistedAt, url)
       ELSE UNCHANGED <<errors, black_list, blacklistedAt>>
    /\ UNCHANGED <<downloaded_pages, jobs, downloadedAt>>

\* fetch, lines 85-96: attempt k ended in a caught exception; after the last
\* attempt the loop is left and the URL recorded
FetchCatches(c, url, o, k) ==
    /\ MayFail(c)
    /\ faulty' = faulty \cup {c}
    /\ error' = ErrorText(url, o)
    /\ IF LastAttempt(k)
       THEN /\ errors' = [u \in DOMAIN errors \cup {url} |-> IF u = url THEN ErrorText(url, o) ELSE errors[u]]
            /\ black_list' = ListAppend(black_list, url)
            /\ blacklistedAt' = FirstSeen(blacklistedAt, url)
       ELSE UNCHANGED <<errors, black_list, blacklistedAt>>
    /\ UNCHANGED <<downloaded_pages, jobs, downloadedAt>>

\* (an exception that leaves fetch after the URL was put on the black list)
FetchRaisesListed(c) ==
    /\ MayFail(c)
    /\ faulty' = faulty \cup {c}
    /\ black_list' = ListAppend(black_list, "unclassified")
    /\ UNCHANGED <<downloaded_pages, errors, error, jobs, downloadedAt, blacklistedAt>>

\* fetch: the attempt ended in an exception that no except clause names
FetchRaises(c) ==
    /\ MayFail(c)
    /\ faulty' = faulty \cup {c}
    /\ UNCHANGED <<downloaded_pages, black_list, errors, error, jobs, downloadedAt, blacklistedAt>>

(***************************************************************************)
(* Tasks.                                                                  *)
(***************************************************************************)
Jobs == 1..MaxTicks
IterTask(pc) == [pc |-> pc, attempts |-> 0, res |-> "pending", top |-> <<>>, launched |-> <<>>, report |-> <<>>]
SubTask(cid, url) == [pc |-> "ready", attempts |-> 0, res |-> "pending", cid |-> cid, url |-> url, links |-> <<>>]
SaveTask(pc, root, folder, url) ==
    [pc |-> pc, attempts |-> 0, res |-> "pending", root |-> root, folder |-> folder, url |-> url,
     content |-> <<>>, dir |-> "", name |-> "", path |-> "", wrote |-> FALSE]

SubsOf(j) == {t \in DOMAIN sub : t[1] = j}
SavesOf(t) == {v \in DOMAIN sv : v[1] = t[1] /\ v[2] = t[2]}
Ended(pc) == pc \in {"done", "failed"}

\* the requests in flight: <<task, attempt, url, job id>>
Requests ==
    {<<(<<j>>), iter[j].attempts, BASE_URL, j>> : j \in {i \in Jobs : iter[i].pc = "listing"}}
    \cup {<<t, sub[t].attempts, COMMENTS_URL(sub[t].cid), t[1]>> : t \in {u \in DOMAIN sub : sub[u].pc = "comments"}}
    \cup {<<v, sv[v].attempts, sv[v].url, v[1]>> : v \in {u \in DOMAIN sv : sv[u].pc = "fetch"}}

Init ==
    /\ downloaded_pages = <<>>
    /\ black_list = <<>>
    /\ errors = <<>>
    /\ error = "something wrong"
    /\ jobs = <<>>
    /\ tick = 0
    /\ iter = [j \in Jobs |-> IterTask("idle")]
    /\ sub = <<>>
    /\ sv = <<>>
    /\ folders = {}
    /\ files = <<>>
    /\ opens = <<>>
    /\ faulty = {}
    /\ downloadedAt = <<>>
    /\ blacklistedAt = <<>>
    /\ api = [op |-> "none", job_id |-> 0, ret |-> <<>>, raised |-> FALSE]

(***************************************************************************)
(* main and one_iteration.                                                 *)
(***************************************************************************)
\* (a loop that creates a task only when the one before it has ended)
MainLoopsSerial == tick < MaxTicks /\ (tick > 0 => iter[tick].pc \in {"done", "failed"})

\* (a loop that awaits the task it created, and ends with its exception)
MainLoopsAwaiting == tick < MaxTicks /\ (tick > 0 => iter[tick].pc \notin {"ready", "failed"})

\* main's loop may go round: the task it created has run to its first await
\* before the sleep ends
MainLoops == tick < MaxTicks /\ (tick > 0 => iter[tick].pc # "ready")

\* main, lines 213-233: create_task(one_iteration()), then sleep
Tick ==
    /\ MainLoops
    /\ tick' = tick + 1
    /\ iter' = [iter EXCEPT ![tick + 1] = IterTask("ready")]
    /\ UNCHANGED <<fetcher, sub, sv, disk, history, api>>

\* one_iteration, lines 216-219, up to the first request of get_top_urls
IterStart(j) ==
    /\ iter[j].pc = "ready"
    /\ iter' = [iter EXCEPT ![j].pc = "listing", ![j].attempts = 1]
    /\ UNCHANGED <<fetcher, tick, sub, sv, disk, history, api>>

\* one_iteration, lines 221-224: the href of a story made absolute and trimmed
Normalize(href) == Strip(IF Contains(href, "item?id=") THEN BASE_URL \o href ELSE href)

\* (a filter that forgets the downloaded pages)
WantedNotBlacklisted(url, dl, bl) == url \notin DOMAIN bl

\* one_iteration, line 225
Wanted(url, dl, bl) == url \notin DOMAIN dl /\ url \notin DOMAIN bl

\* one_iteration, lines 220-226: the sub-jobs to start, <<thread id, url>>
FanOut(top, dl, bl) ==
    SelectSeq([i \in 1..Len(top) |-> <<top[i][1], Normalize(top[i][2])>>], LAMBDA p : Wanted(p[2], dl, bl))

\* one_iteration, lines 219-230, from the response to the listing request on
IterResponse(j, o) ==
    /\ iter[j].pc = "listing"
    /\ \/ /\ o = "ok"
          /\ FetchReturns(BASE_URL)
          /\ \E page \in Web(BASE_URL) :
             LET js == increment_job_count(jobs, j)
                 go == FanOut(page.top, downloaded_pages', black_list)
             IN  /\ Cardinality(DOMAIN sub) + Len(go) <= MaxSubJobs
                 /\ IF go = <<>>
                    THEN \* gather() of nothing is done at once: no suspension before line 228
                         /\ jobs' = PopRest(js, j)
                         /\ iter' = [iter EXCEPT ![j].pc = "done", ![j].res = "ok", ![j].attempts = 0, ![j].top = page.top,
                                                 ![j].report = <<PopValue(js, j)>>]
                         /\ UNCHANGED sub
                    ELSE /\ jobs' = js
                         /\ iter' = [iter EXCEPT ![j].pc = "gather", ![j].res = "ok", ![j].attempts = 0, ![j].top = page.top,
                                                 ![j].launched = go]
                         /\ sub' = sub @@ [t \in {<<j, n>> : n \in 1..Len(go)} |-> SubTask(go[t[2]][1], go[t[2]][2])]
       \/ /\ o \in Retryable
          /\ FetchCatches(<<j>>, BASE_URL, o, iter[j].attempts)
          /\ iter' = IF LastAttempt(iter[j].attempts)
                     THEN \* get_top_urls raises CrawlerError; nothing awaits the task
                          [iter EXCEPT ![j].pc = "failed", ![j].res = "none", ![j].attempts = 0]
                     ELSE [iter EXCEPT ![j].attempts = @ + 1]
          /\ UNCHANGED sub
       \/ /\ o = "other"
          /\ FetchRaises(<<j>>)
          /\ iter' = [iter EXCEPT ![j].pc = "failed", ![j].res = "raised", ![j].attempts = 0]
          /\ UNCHANGED sub
    /\ UNCHANGED <<tick, sv, disk, api>>

\* (a tick that reports as soon as one of its sub-jobs is done)
IterGatheredEarly(j) ==
    /\ iter[j].pc = "gather"
    /\ \E t \in SubsOf(j) : sub[t].pc = "done"
    /\ ~PopRaises(jobs, j)
    /\ iter' = [iter EXCEPT ![j].pc = "done", ![j].report = <<PopValue(jobs, j)>>]
    /\ jobs' = PopRest(jobs, j)
    /\ UNCHANGED <<downloaded_pages, black_list, errors, error, tick, sub, sv, disk, history, api>>

\* one_iteration, lines 227-230: gather returned, or raised what a sub-job raised
IterGathered(j) ==
    /\ iter[j].pc = "gather"
    /\ \/ /\ \E t \in SubsOf(j) : sub[t].pc = "failed"
          /\ iter' = [iter EXCEPT ![j].pc = "failed"]
          /\ UNCHANGED jobs
       \/ /\ \A t \in SubsOf(j) : sub[t].pc = "done"
          /\ IF PopRaises(jobs, j)
             THEN iter' = [iter EXCEPT ![j].pc = "failed"] /\ UNCHANGED jobs
             ELSE /\ iter' = [iter EXCEPT ![j].pc = "done", ![j].report = <<PopValue(jobs, j)>>]
                  /\ jobs' = PopRest(jobs, j)
    /\ UNCHANGED <<downloaded_pages, black_list, errors, error, tick, sub, sv, disk, history, api>>

(***************************************************************************)
(* download_page_with_comments.                                            *)
(***************************************************************************)
\* lines 126-129, up to the first request for the comment-thread page: the
\* coroutines of lines 127-128 are made and not started
SubStart(t) ==
    /\ t \in DOMAIN sub
    /\ sub[t].pc = "ready"
    /\ sub' = [sub EXCEPT ![t].pc = "comments", ![t].attempts = 1]
    /\ UNCHANGED <<fetcher, tick, iter, sv, disk, history, api>>

\* lines 133-137: the links of the comment spans, unescaped
CommentLinks(page) == [i \in 1..Len(page.hrefs) |-> HtmlUnescape(page.hrefs[i])]

\* (saves that take the folder from the page they save, not from the story)
NewSavesOwnFolder(t, links) ==
    [v \in {<<t[1], t[2], k>> : k \in 0..Len(links)} |->
        SaveTask("ready", ROOT, IF v[3] = 0 THEN sub[t].url ELSE links[v[3]],
                 IF v[3] = 0 THEN sub[t].url ELSE links[v[3]])]

\* lines 128, 138-141: the save_page tasks that gather waits for; the story's
\* (k = 0) becomes a task only here, when gather wraps the coroutine
NewSaves(t, links) ==
    [v \in {<<t[1], t[2], k>> : k \in 0..Len(links)} |->
        SaveTask("ready", ROOT, sub[t].url, IF v[3] = 0 THEN sub[t].url ELSE links[v[3]])]

\* lines 129-141, from the response to the comment-thread request on
SubResponse(t, o) ==
    /\ t \in DOMAIN sub
    /\ sub[t].pc = "comments"
    /\ \/ /\ o = "ok"
          /\ FetchReturns(COMMENTS_URL(sub[t].cid))
          /\ jobs' = increment_job_count(jobs, t[1])
          /\ \E page \in Web(COMMENTS_URL(sub[t].cid)) :
                /\ sub' = [sub EXCEPT ![t].pc = "gather", ![t].res = "ok", ![t].attempts = 0, ![t].links = CommentLinks(page)]
                /\ sv' = sv @@ NewSaves(t, CommentLinks(page))
       \/ /\ o \in Retryable
          /\ FetchCatches(t, COMMENTS_URL(sub[t].cid), o, sub[t].attempts)
          /\ sub' = IF LastAttempt(sub[t].attempts)
                    THEN \* lines 130-131: return, the story's save_page never awaited
                         [sub EXCEPT ![t].pc = "done", ![t].res = "none", ![t].attempts = 0]
                    ELSE [sub EXCEPT ![t].attempts = @ + 1]
          /\ UNCHANGED sv
       \/ /\ o = "other"
          /\ FetchRaises(t)
          /\ sub' = [sub EXCEPT ![t].pc = "failed", ![t].res = "raised", ![t].attempts = 0]
          /\ UNCHANGED sv
    /\ UNCHANGED <<tick, iter, disk, api>>

\* line 141: gather returned, or raised what a save_page raised
SubGathered(t) ==
    /\ t \in DOMAIN sub
    /\ sub[t].pc = "gather"
    /\ \/ /\ \E v \in SavesOf(t) : sv[v].pc = "failed"
          /\ sub' = [sub EXCEPT ![t].pc = "failed"]
       \/ /\ \A v \in SavesOf(t) : sv[v].pc = "done"
          /\ sub' = [sub EXCEPT ![t].pc = "done"]
    /\ UNCHANGED <<fetcher, tick, iter, sv, disk, history, api>>

(***************************************************************************)
(* save_page, create_folder, write_file.                                   *)
(***************************************************************************)
\* save_page, line 195, up to the first request of the awaited fetch
SaveStart(v) ==
    /\ v \in DOMAIN sv
    /\ sv[v].pc = "ready"
    /\ sv' = [sv EXCEPT ![v].pc = "fetch", ![v].attempts = 1]
    /\ UNCHANGED <<fetcher, tick, iter, sub, disk, history, api>>

\* save_page, lines 199-202: the folder that create_folder returns
SaveDir(root, foldername) == FolderName(root, SubName(foldername))

\* (a write that does not look for the file first)
MustWriteAlways(page_file) == TRUE

\* write_file, line 176
MustWrite(page_file) == page_file \notin DOMAIN files

\* save_page, lines 197-203, with create_folder and write_file up to the await
\* of aiofiles.open: the record of the task (r before) after it
Saving(r, content) ==
    LET page_dir == SaveDir(r.root, r.folder)
        name == FileName(SubName(r.url))
        page_file == PathJoin(page_dir, name)
    IN  [r EXCEPT !.res = "ok", !.attempts = 0, !.content = content, !.dir = page_dir,
                  !.name = name, !.path = page_file,
                  !.pc = IF MustWrite(page_file) THEN "open" ELSE "done"]

\* create_folder, lines 157-158
FolderMade(dirs, page_dir) == dirs \cup {page_dir}

\* save_page, lines 195-203, from the response to the request on
SaveResponse(v, o) ==
    /\ v \in DOMAIN sv
    /\ sv[v].pc = "fetch"
    /\ \/ /\ o = "ok"
          /\ FetchReturns(sv[v].url)
          /\ jobs' = increment_job_count(jobs, v[1])
          /\ \E page \in Web(sv[v].url) : sv' = [sv EXCEPT ![v] = Saving(sv[v], page)]
          /\ folders' = FolderMade(folders, SaveDir(sv[v].root, sv[v].folder))
       \/ /\ o \in Retryable
          /\ FetchCatches(v, sv[v].url, o, sv[v].attempts)
          /\ sv' = IF LastAttempt(sv[v].attempts)
                   THEN \* lines 197-198
                        [sv EXCEPT ![v].pc = "done", ![v].res = "none", ![v].attempts = 0]
                   ELSE [sv EXCEPT ![v].attempts = @ + 1]
          /\ UNCHANGED folders
       \/ /\ o = "other"
          /\ FetchRaises(v)
          /\ sv' = [sv EXCEPT ![v].pc = "failed", ![v].res = "raised", ![v].attempts = 0]
          /\ UNCHANGED folders
    /\ UNCHANGED <<tick, iter, sub, files, opens, api>>

\* the file after open(page_file, 'w' or 'wb'): made, or cut to nothing
Opened(fs, page_file, content) ==
    [p \in DOMAIN fs \cup {page_file} |-> IF p = page_file THEN [data |-> "", binary |-> content.binary] ELSE fs[p]]
Counted(n, page_file) ==
    [p \in DOMAIN n \cup {page_file} |-> IF p = page_file THEN (IF p \in DOMAIN n THEN n[p] + 1 ELSE 1) ELSE n[p]]

\* write_file, line 181: aiofiles.open has run in its thread
SaveOpen(v) ==
    /\ v \in DOMAIN sv
    /\ sv[v].pc = "open"
    /\ files' = Opened(files, sv[v].path, sv[v].content)
    /\ opens' = Counted(opens, sv[v].path)
    /\ sv' = [sv EXCEPT ![v].pc = "write", ![v].wrote = TRUE]
    /\ UNCHANGED <<fetcher, tick, iter, sub, folders, history, api>>

\* write_file, lines 182-183: write, flush, and the close that ends the
\* async with; the content is in the file when the flush has run
SaveWrite(v) ==
    /\ v \in DOMAIN sv
    /\ sv[v].pc = "write"
    /\ files' = [files EXCEPT ![sv[v].path].data = sv[v].content.data]
    /\ sv' = [sv EXCEPT ![v].pc = "done"]
    /\ UNCHANGED <<fetcher, tick, iter, sub, folders, opens, history, api>>

(***************************************************************************)
(* The crawler.                                                            *)
(***************************************************************************)
Next ==
    \/ Tick
    \/ \E j \in Jobs : IterStart(j)
    \/ \E j \in Jobs, o \in Outcomes : IterResponse(j, o)
    \/ \E j \in Jobs : IterGathered(j)
    \/ \E t \in DOMAIN sub : SubStart(t)
    \/ \E t \in DOMAIN sub, o \in Outcomes : SubResponse(t, o)
    \/ \E t \in DOMAIN sub : SubGathered(t)
    \/ \E v \in DOMAIN sv : SaveStart(v)
    \/ \E v \in DOMAIN sv, o \in Outcomes : SaveResponse(v, o)
    \/ \E v \in DOMAIN sv : SaveOpen(v)
    \/ \E v \in DOMAIN sv : SaveWrite(v)

Spec == Init /\ [][Next]_vars

\* the event loop runs a task that can run: a task that was created gets its
\* turn, a request gets its response or its timeout, a file operation ends
TaskStep ==
    \/ \E j \in Jobs : IterStart(j)
    \/ \E j \in Jobs, o \in Outcomes : IterResponse(j, o)
    \/ \E j \in Jobs : IterGathered(j)
    \/ \E t \in DOMAIN sub : SubStart(t)
    \/ \E t \in DOMAIN sub, o \in Outcomes : SubResponse(t, o)
    \/ \E t \in DOMAIN sub : SubGathered(t)
    \/ \E v \in DOMAIN sv : SaveStart(v)
    \/ \E v \in DOMAIN sv, o \in Outcomes : SaveResponse(v, o)
    \/ \E v \in DOMAIN sv : SaveOpen(v)
    \/ \E v \in DOMAIN sv : SaveWrite(v)

\* one tick on its own: main creates the first task, and the tasks run
TickOnce == tick = 0 /\ Tick
NextTick == TickOnce \/ TaskStep

SpecTick == Init /\ [][NextTick]_vars /\ WF_vars(TaskStep)

(***************************************************************************)
(* A driver of save_page: it calls save_page with a coroutine that returns *)
(* the content at once, one call after the other has returned, all with    *)
(* the root of the process.                                                *)
(***************************************************************************)
RECURSIVE Xs(_)
Xs(n) == IF n = 0 THEN "" ELSE IF n = 1 THEN "x" ELSE Xs(n \div 2) \o Xs(n - n \div 2)
Pad(s, n) == IF Len(s) >= n THEN s ELSE s \o Xs(n - Len(s))
Hints ==
    {"http://a.example/x"}
    \cup {Pad("http://c.example/p#", n) : n \in {FILENAME_MAXLENGTH - 1, FILENAME_MAXLENGTH, FILENAME_MAXLENGTH + MaxPad}}
Roots == {ROOT, "PAGES/"}
Contents == {Body(<<>>, <<>>, "one", FALSE), Body(<<>>, <<>>, "two", TRUE)}

\* the n-th call: save_page(coroutine, root, foldername, filename), lines 195-203
DriveSave(n, root, foldername, filename, content) ==
    /\ n = Cardinality(DOMAIN sv) + 1
    /\ n <= MaxCalls
    /\ \A v \in DOMAIN sv : sv[v].pc = "done" /\ sv[v].root = root
    /\ sv' = sv @@ (<<0, 0, n>> :> Saving(SaveTask("fetch", root, foldername, filename), content))
    /\ folders' = FolderMade(folders, SaveDir(root, foldername))
    /\ UNCHANGED <<fetcher, tick, iter, sub, files, opens, history, api>>

NextSave ==
    \/ \E n \in 1..MaxCalls, root \in Roots, foldername \in Hints, filename \in Hints, content \in Contents :
          DriveSave(n, root, foldername, filename, content)
    \/ \E v \in DOMAIN sv : SaveOpen(v)
    \/ \E v \in DOMAIN sv : SaveWrite(v)

SpecSave == Init /\ [][NextSave]_vars

(***************************************************************************)
(* A driver of the job counters of a Fetcher.                              *)
(***************************************************************************)
\* fetcher.increment_job_count(job_id)
DriveIncrement(job_id) ==
    /\ job_id \in DOMAIN jobs => jobs[job_id] < MaxCount
    /\ jobs' = increment_job_count(jobs, job_id)
    /\ api' = [op |-> "increment_job_count", job_id |-> job_id, ret |-> <<>>, raised |-> FALSE]
    /\ UNCHANGED <<downloaded_pages, black_list, errors, error, tick, iter, sub, sv, disk, history>>

\* fetcher.get_downloaded_pages_by_job_id(job_id)
DriveRead(job_id) ==
    /\ IF PopRaises(jobs, job_id)
       THEN /\ api' = [op |-> "get_downloaded_pages_by_job_id", job_id |-> job_id, ret |-> <<>>, raised |-> TRUE]
            /\ UNCHANGED jobs
       ELSE /\ api' = [op |-> "get_downloaded_pages_by_job_id", job_id |-> job_id,
                       ret |-> <<PopValue(jobs, job_id)>>, raised |-> FALSE]
            /\ jobs' = PopRest(jobs, job_id)
    /\ UNCHANGED <<downloaded_pages, black_list, errors, error, tick, iter, sub, sv, disk, history>>

NextJobs ==
    \/ \E job_id \in 1..3 : DriveIncrement(job_id)
    \/ \E job_id \in 1..3 : DriveRead(job_id)

SpecJobs == Init /\ [][NextJobs]_vars

(***************************************************************************)
(* A driver of concurrent fetches: save_page tasks made one by one for     *)
(* URLs of its choice, all running at once on one Fetcher.                 *)
(***************************************************************************)
FetchUrls == {"http://a.example/x", "http://b.example/y"}

\* asyncio.create_task(save_page(fetcher.fetch(url, job_id), root, url, url))
DriveFetch(n, url) ==
    /\ n = Cardinality(DOMAIN sv) + 1
    /\ n <= MaxCalls
    /\ sv' = sv @@ (<<0, 1, n>> :> SaveTask("ready", ROOT, url, url))
    /\ UNCHANGED <<fetcher, tick, iter, sub, disk, history, api>>

NextFetch ==
    \/ \E n \in 1..MaxCalls, url \in FetchUrls : DriveFetch(n, url)
    \/ \E v \in DOMAIN sv : SaveStart(v)
    \/ \E v \in DOMAIN sv, o \in Outcomes : SaveResponse(v, o)
    \/ \E v \in DOMAIN sv : SaveOpen(v)
    \/ \E v \in DOMAIN sv : SaveWrite(v)

SpecFetch == Init /\ [][NextFetch]_vars

(***************************************************************************)
(* The calls of fetch, whatever task makes them.                           *)
(***************************************************************************)
Call(c) == IF Len(c) = 1 THEN iter[c[1]] ELSE IF Len(c) = 2 THEN sub[c] ELSE sv[c]
NewRequests == Requests' \ Requests

(***************************************************************************)
(* C1. Retry cap: a call of fetch whose attempts all end in a retryable    *)
(* error makes exactly MAXIMUM_FETCHES attempts: a failure of an earlier   *)
(* attempt is followed by the next attempt, the failure of the last one by *)
(* the return of None, with the URL in errors and in black_list and        *)
(* nothing added to downloaded_pages or to jobs.                           *)
(***************************************************************************)
C1_RetryCap ==
    [][\A r \in Requests :
          (Call(r[1])' # Call(r[1]) /\ Call(r[1])'.res \notin {"ok", "raised"}) =>
              IF r[2] < MAXIMUM_FETCHES
              THEN /\ Call(r[1])'.res = "pending"
                   /\ Call(r[1])'.attempts = r[2] + 1
                   /\ <<r[1], r[2] + 1, r[3], r[4]>> \in Requests'
              ELSE /\ r[2] = MAXIMUM_FETCHES
                   /\ Call(r[1])'.res = "none"
                   /\ Call(r[1])'.attempts = 0
                   /\ r[3] \in DOMAIN errors'
                   /\ r[3] \in DOMAIN black_list'
                   /\ downloaded_pages' = downloaded_pages
                   /\ jobs' = jobs]_vars

C1_Witness ==
    \E v \in DOMAIN sv :
        /\ sv[v].res = "none"
        /\ sv[v].url \in DOMAIN errors
        /\ sv[v].url \in DOMAIN black_list
        /\ sv[v].url \notin DOMAIN downloaded_pages

(***************************************************************************)
(* C2. Blacklist permanence, as claimed: no request is issued for a URL on *)
(* behalf of a job that was created after the URL entered black_list.      *)
(***************************************************************************)
C2_BlacklistPermanence ==
    [][\A r \in NewRequests : ~(r[3] \in DOMAIN blacklistedAt /\ r[4] > blacklistedAt[r[3]])]_vars

(***************************************************************************)
(* C3. Downloaded-set dedup, as claimed: no request is issued for a URL on *)
(* behalf of a job that was created after the URL entered downloaded_pages.*)
(***************************************************************************)
C3_NoRefetch ==
    [][\A r \in NewRequests : ~(r[3] \in DOMAIN downloadedAt /\ r[4] > downloadedAt[r[3]])]_vars

(***************************************************************************)
(* C3, amended. A tick starts no sub-job for a story whose URL is in       *)
(* downloaded_pages when its fan-out runs, and a story page is requested   *)
(* only by the save_page task of a sub-job started for that URL.           *)
(***************************************************************************)
C3_FanOutSkipsDownloaded ==
    [][/\ \A t \in DOMAIN sub' \ DOMAIN sub : sub'[t].url \notin DOMAIN downloaded_pages'
       /\ \A r \in NewRequests :
             (Len(r[1]) = 3 /\ r[1][3] = 0) => r[3] = sub[<<r[1][1], r[1][2]>>].url]_vars

C3_Witness ==
    \E j \in Jobs :
        /\ iter[j].res = "ok"
        /\ Len(iter[j].top) = 1
        /\ iter[j].launched = <<>>
        /\ Normalize(iter[j].top[1][2]) \in DOMAIN downloaded_pages
        /\ Normalize(iter[j].top[1][2]) \notin DOMAIN black_list
        /\ downloadedAt[Normalize(iter[j].top[1][2])] < j

(***************************************************************************)
(* C4. Idempotent persistence: of two calls of save_page made one after    *)
(* the other with the same root, folder hint and file hint, the second     *)
(* does not open the file: the file is there, was opened once, and holds   *)
(* what the first of the calls for that path wrote.                        *)
(***************************************************************************)
Driven == {v \in DOMAIN sv : v[1] = 0}
SameHints(v, w) == sv[v].root = sv[w].root /\ sv[v].folder = sv[w].folder /\ sv[v].url = sv[w].url
FirstFor(p) == CHOOSE v \in Driven : sv[v].path = p /\ \A w \in Driven : sv[w].path = p => v[3] <= w[3]

C4_SecondSaveSkips ==
    \A v \in Driven : \A w \in Driven :
        (v[3] < w[3] /\ SameHints(v, w)) =>
            /\ sv[w].path = sv[v].path
            /\ sv[w].pc = "done"
            /\ ~sv[w].wrote
            /\ sv[w].path \in DOMAIN files
            /\ opens[sv[w].path] = 1
            /\ files[sv[w].path].data = sv[FirstFor(sv[w].path)].content.data
            /\ files[sv[w].path].binary = sv[FirstFor(sv[w].path)].content.binary
            /\ Cardinality({p \in DOMAIN files : p = sv[w].path}) = 1

C4_Witness ==
    \E v \in Driven : \E w \in Driven :
        /\ v[3] < w[3]
        /\ SameHints(v, w)
        /\ sv[v].wrote
        /\ sv[w].pc = "done"
        /\ sv[w].content # sv[v].content
        /\ files[sv[v].path].data = sv[v].content.data

(***************************************************************************)
(* C5. Write-once under concurrency, as claimed: no file is opened for     *)
(* writing more than once.                                                 *)
(***************************************************************************)
C5_WriteOnce == \A p \in DOMAIN opens : opens[p] <= 1

(***************************************************************************)
(* C6. Job counter one-shot: get_downloaded_pages_by_job_id returns the    *)
(* count of a job that has an entry and removes the entry; for a job that  *)
(* has none (it was read before, or never counted) it raises, returns      *)
(* nothing and leaves the counters as they are.                            *)
(***************************************************************************)
ReadRemoves ==
    (api' # api /\ api'.op = "get_downloaded_pages_by_job_id") =>
        IF api'.job_id \in DOMAIN jobs
        THEN /\ ~api'.raised
             /\ api'.ret = <<jobs[api'.job_id]>>
             /\ api'.job_id \notin DOMAIN jobs'
             /\ \A k \in DOMAIN jobs \ {api'.job_id} : k \in DOMAIN jobs' /\ jobs'[k] = jobs[k]
        ELSE /\ api'.raised
             /\ api'.ret = <<>>
             /\ jobs' = jobs

\* the job just read is read again, nothing in between
SecondReadRaises ==
    (api.op = "get_downloaded_pages_by_job_id" /\ api' # api /\ api'.op = api.op /\ api'.job_id = api.job_id) =>
        (api'.raised /\ api'.ret = <<>> /\ api'.job_id \notin DOMAIN jobs')

C6_ReadOnce == [][ReadRemoves /\ SecondReadRaises]_vars

C6_Witness ==
    /\ api.op = "get_downloaded_pages_by_job_id"
    /\ api.raised
    /\ api.job_id \notin DOMAIN jobs
    /\ jobs # <<>>

(***************************************************************************)
(* C7. The count reported by a tick whose listing has one story, whose     *)
(* comment page has one link, and whose fetches all succeed.               *)
(***************************************************************************)
OneStoryOneLink(j) ==
    /\ iter[j].pc = "done"
    /\ Len(iter[j].top) = 1
    /\ Len(iter[j].launched) = 1
    /\ sub[<<j, 1>>].res = "ok"
    /\ Len(sub[<<j, 1>>].links) = 1
    /\ sv[<<j, 1, 0>>].res = "ok"
    /\ sv[<<j, 1, 1>>].res = "ok"

\* as claimed: the story page and the page of the comment link are counted
C7_CountIsTwo == \A j \in Jobs : OneStoryOneLink(j) => iter[j].report = <<2>>

\* amended: the front page and the comment-thread page are counted as well
C7_CountIsFour == \A j \in Jobs : OneStoryOneLink(j) => iter[j].report = <<4>>

C7_Witness == \E j \in Jobs : OneStoryOneLink(j) /\ iter[j].report # <<>>

(***************************************************************************)
(* C8. The files of a sub-job whose fetches all succeeded: when it is done *)
(* there is one file for the story page and one for every comment link, in *)
(* the folder made from the story's URL, each named after the URL fetched  *)
(* (the tick wrote them itself, once each and with what it fetched, when   *)
(* no other sub-job is for the same story); and no file on the disk is     *)
(* named after the listing URL, or after the URL of a comment thread that  *)
(* is not itself the story.                                                *)
(***************************************************************************)
AllFetched(t) == sub[t].pc = "done" /\ sub[t].res = "ok" /\ \A v \in SavesOf(t) : sv[v].res = "ok"
Alone(t) == \A u \in DOMAIN sub : u # t => sub[u].url # sub[t].url

C8_FilesOfSubJob ==
    /\ \A t \in DOMAIN sub : AllFetched(t) =>
          /\ {v[3] : v \in SavesOf(t)} = 0..Len(sub[t].links)
          /\ \A v \in SavesOf(t) :
                /\ sv[v].url = (IF v[3] = 0 THEN sub[t].url ELSE sub[t].links[v[3]])
                /\ sv[v].dir = FolderName(ROOT, SubName(sub[t].url))
                /\ sv[v].name = FileName(SubName(sv[v].url))
                /\ sv[v].path = sv[v].dir \o "/" \o sv[v].name
                /\ sv[v].dir \in folders
                /\ sv[v].path \in DOMAIN files
                /\ Alone(t) =>
                      /\ sv[v].wrote
                      /\ opens[sv[v].path] = 1
                      /\ files[sv[v].path].data = sv[v].content.data
                      /\ sv[v].content \in Web(sv[v].url)
          /\ Cardinality({sv[v].path : v \in SavesOf(t)}) = Len(sub[t].links) + 1
          /\ (sub[t].url = "http://a.example/x" /\ sub[t].links = <<"http://b.example/y?p=1&q=2">>) =>
                {sv[v].path : v \in SavesOf(t)} =
                    {"/srv/PAGES/http___a.example_x/http___a.example_x",
                     "/srv/PAGES/http___a.example_x/http___b.example_y?p=1&q=2"}
    /\ \A p \in DOMAIN files : \E v \in DOMAIN sv :
          /\ sv[v].res = "ok"
          /\ sv[v].path = p
          /\ sv[v].url # BASE_URL
          /\ sv[v].url = COMMENTS_URL(sub[<<v[1], v[2]>>].cid) => sv[v].url = sub[<<v[1], v[2]>>].url
    /\ \A d \in folders : \E t \in DOMAIN sub : d = FolderName(ROOT, SubName(sub[t].url))

C8_Witness ==
    \E t \in DOMAIN sub :
        /\ AllFetched(t)
        /\ Alone(t)
        /\ Len(sub[t].links) = 1
        /\ Cardinality(DOMAIN files) = 2
        /\ \A v \in SavesOf(t) : sv[v].wrote
        /\ BASE_URL \in DOMAIN downloaded_pages
        /\ COMMENTS_URL(sub[t].cid) \in DOMAIN downloaded_pages

(***************************************************************************)
(* C9. Name truncation: a hint whose name after SubName is at or over the  *)
(* ceiling gets a name of exactly the ceiling's length, made of the first  *)
(* characters of the name and the digest of the whole of it (for the       *)
(* folder, the name create_folder cuts is the path root/foldername); and   *)
(* two calls with the same root and hints get the same names, whatever is  *)
(* on the disk by then.                                                    *)
(***************************************************************************)
Cut(name, whole, ceiling) ==
    LET hash == Md5Hex(whole)
        keep == ceiling - Len(hash)
    IN  /\ Len(name) = ceiling
        /\ keep \in 0..ceiling
        /\ name = SubSeq(whole, 1, keep) \o hash

C10_FatalPerTick ==
    /\ \A j \in Jobs : (iter[j].res = "none") =>
          /\ iter[j].pc = "failed"
          /\ iter[j].launched = <<>>
          /\ SubsOf(j) = {}
          /\ iter[j].report = <<>>
          /\ j \notin DOMAIN jobs
    /\ (tick \in 1..(MaxTicks - 1) /\ iter[tick].pc = "failed") => ENABLED Tick

C10_Witness ==
    /\ iter[1].pc = "failed"
    /\ iter[1].res = "none"
    /\ blacklistedAt[BASE_URL] = 1
    /\ tick = 2
    /\ iter[2].pc = "listing"

(***************************************************************************)
(* C11. Ticks are fire-and-forget: whatever the task of the last tick is   *)
(* doing once it has run to its first await (waiting for the listing, for  *)
(* its sub-jobs, ended or failed), main may create the next one; the jobs  *)
(* in flight have each their own id and counter: a step changes the        *)
(* counter of one job at most, and it is a step of a task of that job.     *)
(***************************************************************************)
Started(j) == iter[j].pc \notin {"idle", "ready"}
InFlight(j) == iter[j].pc \in {"listing", "gather"}
CounterChanged(k) ==
    \/ (k \in DOMAIN jobs) # (k \in DOMAIN jobs')
    \/ k \in DOMAIN jobs /\ k \in DOMAIN jobs' /\ jobs'[k] # jobs[k]
TaskStepped(k) ==
    \/ iter'[k] # iter[k]
    \/ \E t \in DOMAIN sub : t[1] = k /\ sub'[t] # sub[t]
    \/ \E v \in DOMAIN sv : v[1] = k /\ sv'[v] # sv[v]
OwnCounter == \A k \in Jobs : CounterChanged(k) => (TaskStepped(k) /\ \A i \in Jobs \ {k} : ~TaskStepped(i))

C11_FireAndForget ==
    /\ [](\A j \in 1..(MaxTicks - 1) : (tick = j /\ Started(j)) => ENABLED Tick)
    /\ [][OwnCounter]_vars

C11_Witness ==
    /\ tick = 2
    /\ iter[1].pc = "gather"
    /\ iter[2].pc = "gather"
    /\ 1 \in DOMAIN jobs
    /\ 2 \in DOMAIN jobs
    /\ jobs[1] # jobs[2]

(***************************************************************************)
(* C12. Failure isolation, as claimed: the exhaustion of the attempts for  *)
(* one URL makes no sub-job and no tick fail, and leaves the other URLs of *)
(* the sub-job fetched and saved: a sub-job that is done has fetched its   *)
(* story page (or exhausted the attempts for it), and what a save_page of  *)
(* a finished sub-job fetched is on the disk.                              *)
(***************************************************************************)
StorySave(t) == <<t[1], t[2], 0>>
NothingRaised ==
    /\ \A j \in Jobs : iter[j].res # "raised"
    /\ \A t \in DOMAIN sub : sub[t].res # "raised"
    /\ \A v \in DOMAIN sv : sv[v].res # "raised"

C12_FailureIsolation ==
    NothingRaised =>
        /\ \A t \in DOMAIN sub : sub[t].pc # "failed"
        /\ \A j \in Jobs : iter[j].pc = "failed" => iter[j].res = "none"
        /\ \A t \in DOMAIN sub : sub[t].pc = "done" =>
              /\ StorySave(t) \in DOMAIN sv
              /\ \A v \in SavesOf(t) :
                    /\ sv[v].pc = "done"
                    /\ sv[v].res \in {"ok", "none"}
                    /\ sv[v].res = "ok" => sv[v].path \in DOMAIN files

(***************************************************************************)
(* C13. Unclassified errors propagate: when an attempt of a call of fetch  *)
(* ends in an exception that fetch does not catch, the call ends with it   *)
(* in that step: its task has failed, it has no request in flight and      *)
(* makes none later, and downloaded_pages, black_list, errors, the last    *)
(* error and the job counters are what they were before the attempt ended. *)
(***************************************************************************)
Raised(c) == Call(c).res = "raised"
Propagates ==
    \A r \in Requests :
        (~Raised(r[1]) /\ Raised(r[1])') =>
            /\ Call(r[1])'.pc = "failed"
            /\ \A q \in Requests' : q[1] # r[1]
            /\ downloaded_pages' = downloaded_pages
            /\ black_list' = black_list
            /\ errors' = errors
            /\ error' = error
            /\ jobs' = jobs
NoAttemptAfter == \A q \in NewRequests : ~Raised(q[1])

C13_UnclassifiedPropagates == [][Propagates /\ NoAttemptAfter]_vars

C13_Witness ==
    \E v \in DOMAIN sv :
        /\ sv[v].res = "raised"
        /\ sv[v].pc = "failed"
        /\ sv[v].url \notin DOMAIN downloaded_pages
        /\ sv[v].url \notin DOMAIN black_list
        /\ sv[v].url \notin DOMAIN errors

(***************************************************************************)
(* C14. Success accounting is atomic: in every state the number of entries *)
(* of downloaded_pages is the sum of the counts the ticks have reported    *)
(* and of the counters still in jobs, so no task finds a URL recorded      *)
(* whose job was not counted for it.                                       *)
(***************************************************************************)
Reported(j) == IF iter[j].report = <<>> THEN 0 ELSE iter[j].report[1]
Live(j) == IF j \in DOMAIN jobs THEN jobs[j] ELSE 0
RECURSIVE Accounted(_)
Accounted(j) == IF j = 0 THEN 0 ELSE Reported(j) + Live(j) + Accounted(j - 1)

C14_AtomicAccounting ==
    /\ ListLen(downloaded_pages) = Accounted(MaxTicks)
    /\ DOMAIN jobs \subseteq Jobs
    /\ \A j \in Jobs : iter[j].report # <<>> => j \notin DOMAIN jobs

C14_Witness ==
    /\ BASE_URL \in DOMAIN downloaded_pages
    /\ downloaded_pages[BASE_URL] = 2
    /\ Reported(1) >= 3
    /\ Live(2) >= 2
    /\ \E v \in DOMAIN sv : sv[v].pc = "fetch"

(***************************************************************************)
(* C15. Sub-job start order, as claimed: while a sub-job waits for the     *)
(* comment-thread page, and ever after, the first request for its story    *)
(* page has been issued.                                                   *)
(***************************************************************************)
StoryRequested(t) == StorySave(t) \in DOMAIN sv /\ sv[StorySave(t)].pc # "ready"

C15_StoryStartedFirst == \A t \in DOMAIN sub : sub[t].pc # "ready" => StoryRequested(t)

(***************************************************************************)
(* C16. Sub-job completion, as claimed: when a sub-job is done, whatever   *)
(* its comment-thread fetch returned, the save_page of its story page has  *)
(* run to its end and so has the save_page of every comment link.          *)
(***************************************************************************)
SaveCompleted(v) == v \in DOMAIN sv /\ sv[v].pc = "done"

C16_SavesCompleted ==
    \A t \in DOMAIN sub : sub[t].pc = "done" =>
        /\ SaveCompleted(StorySave(t))
        /\ \A k \in 1..Len(sub[t].links) : SaveCompleted(<<t[1], t[2], k>>)

(***************************************************************************)
(* C17. Disjoint URL history, as claimed: no URL is both in                *)
(* downloaded_pages and in black_list.                                     *)
(***************************************************************************)
C17_DisjointHistory == DOMAIN downloaded_pages \cap DOMAIN black_list = {}

(***************************************************************************)
(* C18. Error attribution under concurrency: the message that errors holds *)
(* for a URL is a message of a failed attempt for that URL, and when a     *)
(* call exhausts its attempts the message it stores is the one its last    *)
(* attempt has just set, whatever the other calls in flight have put in    *)
(* the shared field in between; the entries of the other URLs are kept.    *)
(***************************************************************************)
OwnMessages(url) == {ErrorText(url, o) : o \in Retryable}
Exhausts(r) == Call(r[1]).res = "pending" /\ Call(r[1])'.res = "none"
StoresOwn ==
    \A r \in Requests : Exhausts(r) =>
        /\ r[3] \in DOMAIN errors'
        /\ errors'[r[3]] = error'
        /\ errors'[r[3]] \in OwnMessages(r[3])
        /\ \A u \in DOMAIN errors \ {r[3]} : u \in DOMAIN errors' /\ errors'[u] = errors[u]

C18_ErrorAttribution ==
    /\ [](\A u \in DOMAIN errors : errors[u] \in OwnMessages(u))
    /\ [][StoresOwn]_vars

\* a call has exhausted its attempts while another, for another URL, has
\* failed since and left its message in the shared field
C18_Witness ==
    \E v \in DOMAIN sv : \E w \in DOMAIN sv :
        /\ sv[v].res = "none"
        /\ sv[w].url # sv[v].url
        /\ sv[w].pc = "fetch"
        /\ sv[w].attempts > 1
        /\ error \in OwnMessages(sv[w].url)
        /\ error \notin OwnMessages(sv[v].url)
        /\ errors[sv[v].url] \in OwnMessages(sv[v].url)

(***************************************************************************)
(* C19. Reporting happens last: the step that reads and removes the        *)
(* counter of a job is taken when every sub-job of the tick is done, every *)
(* save_page of theirs is done and no request of the job is in flight; and *)
(* from then on it stays so: no request is made for the job and the job    *)
(* has no entry in jobs.                                                   *)
(***************************************************************************)
Quiet(j) ==
    /\ \A t \in SubsOf(j) : sub[t].pc = "done"
    /\ \A v \in DOMAIN sv : v[1] = j => sv[v].pc = "done"
    /\ \A r \in Requests : r[4] # j
HasReported(j) == iter[j].report # <<>>
Reads(j) == j \in DOMAIN jobs /\ j \notin DOMAIN jobs'

C19_ReportingLast ==
    /\ [](\A j \in Jobs : HasReported(j) => (Quiet(j) /\ j \notin DOMAIN jobs /\ iter[j].pc = "done"))
    /\ [][\A j \in Jobs : Reads(j) => (Quiet(j) /\ HasReported(j)' /\ iter'[j].report = <<jobs[j]>>)]_vars

C19_Witness ==
    \E j \in Jobs :
        /\ HasReported(j)
        /\ Len(iter[j].launched) = 2
        /\ iter[j].report[1] >= 5
        /\ \E v \in DOMAIN sv : v[1] = j /\ sv[v].res = "none"

(***************************************************************************)
(* C20. Tick termination: no call of fetch makes more than MAXIMUM_FETCHES *)
(* attempts; and in a run in which every attempt ends and no unclassified  *)
(* error occurs, every tick that was created ends, with a crawl error (the *)
(* listing gave nothing) or with its count reported, and then has no entry *)
(* in jobs.                                                                *)
(***************************************************************************)
TickEnded(j) ==
    /\ \/ iter[j].pc = "failed" /\ iter[j].res = "none"
       \/ iter[j].pc = "done" /\ HasReported(j)
    /\ j \notin DOMAIN jobs
    /\ \A r \in Requests : r[4] # j

C20_TickTermination ==
    /\ [](\A r \in Requests : r[2] \in 1..MAXIMUM_FETCHES)
    /\ ([]NothingRaised) => \A j \in Jobs : (iter[j].pc # "idle") ~> TickEnded(j)

C20_Witness ==
    /\ NothingRaised
    /\ TickEnded(1)
    /\ iter[1].pc = "done"
    /\ Len(iter[1].launched) = 2
    /\ \E v \in DOMAIN sv : sv[v].res = "none"
    /\ \E v \in DOMAIN sv : sv[v].res = "ok"
    /\ Requests = {}

=============================================================================
